---- MODULE Spec2Model ----
(***************************************************************************)
(* Queue state machine of the Recipe Migrator (src/App.tsx) together with  *)
(* the working copy of the review form (components/RecipeReview) and the   *)
(* outcomes of the extraction client (src/services/geminiService.ts).      *)
(*                                                                         *)
(* Encoding.  Item ids are the strings produced by                         *)
(* Math.random().toString(36).substring(7).  They are modelled as the      *)
(* integers 0..NumIds: 0 is the empty string (substring(7) of a short      *)
(* representation such as "0.i"), 1..NumIds are non-empty tokens.  Two     *)
(* calls of Math.random may produce the same token.  NullId is the value   *)
(* null of activeFileId.  A file name is a sequence of tokens whose last   *)
(* element is the extension, so that endsWith is a test of that element.   *)
(* An absent optional field (recipe?, error?) is NoRecipe / NoError.       *)
(*                                                                         *)
(* Granularity.  JavaScript runs one task at a time: a user event handler  *)
(* and each continuation of startProcessing between two awaits is one      *)
(* atomic action.  State read through a closure (files, activeFileId in    *)
(* startProcessing) is the value captured when the handler was invoked.    *)
(* The catch block of one item and the loop head of the next item run in   *)
(* the same continuation, so they are one action.                          *)
(*                                                                         *)
(* Environment.  A reader rejects with a ProgressEvent, the document       *)
(* converter and the extraction client with an Error whose message is not  *)
(* empty.  The environment variable API_KEY is fixed for a session.        *)
(* The fetch of an upload and the read of the response body may each       *)
(* reject.                                                                 *)
(*                                                                         *)
(* Specifications.  Spec and LiveSpec are the sessions of the queue: add,  *)
(* batch runs, selection and the review form, with TANDOOR_API_KEY unset   *)
(* and the Tandoor buttons not used.  ExportSpec is the sessions of the    *)
(* export: a COMPLETED item holding any record of ExportRecipes, the       *)
(* Upload to Tandoor and Test Tandoor Connection buttons and the           *)
(* continuations of uploadToTandoor.  AppSpec is the whole page: the       *)
(* queue, the Tandoor buttons and the downloads interleaved.  RouteSpec    *)
(* is the sessions of a queue that holds one file of any name and          *)
(* declared type.  In these the service answers with documents of          *)
(* RECIPE_SCHEMA; ReplySpec is the sessions of the queue in which it may   *)
(* answer with any text.  FormSpec is the sessions of the review form on   *)
(* one extracted item: the list handlers, confirm and cancel.              *)
(*                                                                         *)
(* Output.  alertMsg, uploadLog and download hold what the handler or      *)
(* continuation that ran last showed, logged and offered; every other      *)
(* step clears them.                                                       *)
(***************************************************************************)
EXTENDS Integers, Sequences, FiniteSets, TLC

\* ---------------------------------------------------------------- bounds
MaxItems == 2      \* longest queue explored
MaxAdd == 2        \* most files handed to one add
NumIds == 2        \* number of distinct non-empty id tokens
MaxAmountLen == 3  \* longest amount text handed to the export mapping
MaxIngredients == 2
MaxSteps == 2
MaxKeywords == 2
MaxFetch == 1      \* most uploads outstanding at a time
MaxSeedLen == 1    \* longest list of a record the form is seeded with
MaxFormList == 2   \* longest list built in the form

\* ------------------------------------------------------------ vocabulary
NullId == -1
EmptyId == 0
IdTokens == 0 .. NumIds

PENDING == "PENDING"
PROCESSING == "PROCESSING"
REVIEW == "REVIEW"
COMPLETED == "COMPLETED"
ERROR == "ERROR"
ProcessStatus == {PENDING, PROCESSING, REVIEW, COMPLETED, ERROR}

NoRecipe == [undefined |-> TRUE]
NoError == "<undefined>"
NoRequest == [none |-> TRUE]
NoAlert == <<>>
NoLog == <<>>
NoDownload == [none |-> TRUE]

\* The files a user hands to the application: name and declared mime type.
PngFile == [name |-> <<"scan", ".png">>, type |-> "image/png"]
DocxFile == [name |-> <<"notes", ".docx">>, type |-> ""]
FileSet == {PngFile, DocxFile}

\* The user uploads them alternately: the p-th file of a session.
UploadedFile(p) == IF p % 2 = 1 THEN PngFile ELSE DocxFile

\* Texts a user types into the name field of the review form.
NameValues == {"Soup", "Stew"}

\* JSON documents the extraction service answers with (schema-conforming).
\* The text of an amount is the sequence of its characters.
Responses ==
  { [ name |-> "Soup", description |-> "", servings |-> 2,
      prep_time_minutes |-> 5, cook_time_minutes |-> 10,
      ingredients |-> << [amount |-> <<"2">>, unit |-> "cups",
                          name |-> "flour"] >>,
      steps |-> << [instruction |-> "Mix"] >>,
      keywords |-> << "Dinner" >> ] }

VARIABLES
  files,          \* useState<FileItem[]>            App.tsx:9
  activeFileId,   \* useState<string | null>         App.tsx:10
  isProcessing,   \* useState(false)                 App.tsx:11
  data,           \* RecipeReview useState(recipe); NoRecipe while unmounted
  runs,           \* the suspended invocations of startProcessing
  apiKey,         \* process.env.API_KEY is set
  busyReturn,     \* the handler that ran last was startProcessing and it
                  \* returned at its guard (App.tsx:95)
  calls,          \* calls[i]: extraction calls issued for the i-th queue item
  formEvent,      \* what the handler that ran last did to the review form:
                  \* "discarded", "switched" (unsaved edits were dropped by
                  \* cancel / by a change of the active item), "resaved"
                  \* (confirm of a COMPLETED item with unchanged fields), ""
  tandoorKey,     \* process.env.TANDOOR_API_KEY is set
  fetches,        \* the suspended invocations of uploadToTandoor
  alertMsg,       \* the alert() the handler that ran last showed, or NoAlert
  uploadLog,      \* what the handler that ran last wrote with console.error
                  \* in uploadToTandoor, or NoLog
  download        \* the file the handler that ran last offered for
                  \* download, or NoDownload

vars == <<files, activeFileId, isProcessing, data, runs, apiKey, busyReturn,
          calls, formEvent, tandoorKey, fetches, alertMsg, uploadLog,
          download>>

\* a handler that shows no alert, logs no upload error, offers no download
\* and leaves the uploads alone
Silent ==
  /\ alertMsg' = NoAlert
  /\ uploadLog' = NoLog
  /\ download' = NoDownload
  /\ UNCHANGED <<tandoorKey, fetches>>

\* ----------------------------------------------------------- helpers
\* !x for x : string | null
Falsy(x) == x = NullId \/ x = EmptyId

EndsWith(name, suffix) == Len(name) > 0 /\ name[Len(name)] = suffix

\* prev.map(f => f.id === id ? upd(f) : f), upd[i] being upd(fs[i])
MapById(fs, id, upd) ==
  [i \in DOMAIN fs |-> IF fs[i].id = id THEN upd[i] ELSE fs[i]]

SetProcessing(f) == [f EXCEPT !.status = PROCESSING]

\* files.filter(f => f.status === PENDING), remembering each item's position
RECURSIVE FilterPending(_, _)
FilterPending(fs, i) ==
  IF i > Len(fs) THEN <<>>
  ELSE IF fs[i].status = PENDING
       THEN <<[id |-> fs[i].id, file |-> fs[i].file, pos |-> i]>>
              \o FilterPending(fs, i + 1)
       ELSE FilterPending(fs, i + 1)

\* files.find(f => f.id === activeFileId): index of the first match, 0 if none
MatchingIndices(fs, aid) == {i \in DOMAIN fs : fs[i].id = aid}

ActiveIndex(fs, aid) ==
  IF aid = NullId \/ MatchingIndices(fs, aid) = {} THEN 0
  ELSE CHOOSE i \in MatchingIndices(fs, aid) :
         \A j \in MatchingIndices(fs, aid) : i <= j

\* activeItem && activeItem.recipe: the review panel is rendered
FormMounted(fs, aid) ==
  /\ ActiveIndex(fs, aid) # 0
  /\ fs[ActiveIndex(fs, aid)].recipe # NoRecipe

\* a form without the effect that re-seeds the working copy
NextData_Sticky(fs2, aid2, changed) ==
  IF ~FormMounted(fs2, aid2) THEN NoRecipe
  ELSE IF ~FormMounted(files, activeFileId)
       THEN fs2[ActiveIndex(fs2, aid2)].recipe
       ELSE data

\* Working copy after a render: seeded on mount, re-seeded when the recipe
\* prop is a different object, kept otherwise, dropped on unmount.
NextData(fs2, aid2, changed) ==
  IF ~FormMounted(fs2, aid2) THEN NoRecipe
  ELSE IF ~FormMounted(files, activeFileId) \/ changed
       THEN fs2[ActiveIndex(fs2, aid2)].recipe
       ELSE data

\* ------------------------------------------------------------------ Init
Init ==
  /\ files = <<>>
  /\ activeFileId = NullId
  /\ isProcessing = FALSE
  /\ data = NoRecipe
  /\ runs = <<>>
  /\ apiKey \in BOOLEAN
  /\ busyReturn = FALSE
  /\ calls = <<>>
  /\ formEvent = ""
  /\ tandoorKey = FALSE
  /\ fetches = <<>>
  /\ alertMsg = NoAlert
  /\ uploadLog = NoLog
  /\ download = NoDownload

\* ------------------------------------------------------------------- add
\* an add that marks the new item as being processed
NewItem_Started(id, file) ==
  [id |-> id, file |-> file, status |-> PROCESSING,
   recipe |-> NoRecipe, error |-> NoError]

NewItem(id, file) ==
  [id |-> id, file |-> file, status |-> PENDING,
   recipe |-> NoRecipe, error |-> NoError]

processFilesToAdd(ids, addedFiles) ==
  /\ files' = files \o [i \in 1 .. Len(addedFiles) |->
                          NewItem(ids[i], addedFiles[i])]
  /\ calls' = calls \o [i \in 1 .. Len(addedFiles) |-> 0]
  /\ data' = NextData(files', activeFileId, FALSE)
  /\ busyReturn' = FALSE
  /\ formEvent' = ""
  /\ UNCHANGED <<activeFileId, isProcessing, runs, apiKey>>
  /\ Silent

Add ==
  \E n \in 1 .. MaxAdd :
    /\ Len(files) + n <= MaxItems
    /\ \E ids \in [1 .. n -> IdTokens] :
         processFilesToAdd(ids, [i \in 1 .. n |-> UploadedFile(Len(files) + i)])

\* ------------------------------------------------------- startProcessing
\* a guard that never sees the flag
AlreadyRunning_Never == FALSE

AlreadyRunning == isProcessing

\* The loop head of iteration k of run r applied to the queue fs: mark the
\* item PROCESSING and suspend on its reader; after the last item clear the
\* flag and drop the run.
LoopHead(fs, r, run, k) ==
  IF k <= Len(run.pending)
  THEN /\ files' = MapById(fs, run.pending[k].id,
                            [i \in DOMAIN fs |-> SetProcessing(fs[i])])
       /\ runs' = [runs EXCEPT ![r] = [run EXCEPT !.k = k, !.phase = "read",
                                               !.request = NoRequest]]
       /\ isProcessing' = isProcessing
  ELSE /\ files' = fs
       /\ runs' = [i \in 1 .. Len(runs) - 1 |->
                     IF i < r THEN runs[i] ELSE runs[i + 1]]
       /\ isProcessing' = FALSE

StartProcessing ==
  IF AlreadyRunning
  THEN /\ busyReturn' = TRUE
       /\ formEvent' = ""
       /\ UNCHANGED <<files, activeFileId, isProcessing, data, runs, apiKey>>
       /\ UNCHANGED <<calls>>
       /\ Silent
  ELSE LET pendingFiles == FilterPending(files, 1)
           run == [pending |-> pendingFiles, k |-> 1, phase |-> "read",
                   activeFileId |-> activeFileId, startLen |-> Len(files),
                   request |-> NoRequest]
       IN /\ busyReturn' = FALSE
          /\ IF pendingFiles = <<>>
             THEN UNCHANGED <<files, isProcessing, runs>>
             ELSE /\ files' = MapById(files, pendingFiles[1].id,
                        [i \in DOMAIN files |-> SetProcessing(files[i])])
                  /\ runs' = Append(runs, run)
                  /\ isProcessing' = TRUE
          /\ data' = NextData(files', activeFileId, FALSE)
          /\ formEvent' = ""
          /\ UNCHANGED <<activeFileId, apiKey, calls>>
          /\ Silent

\* ------------------------------------------------- content reader routing
\* a routing that looks at the declared type before the name
ContentRoute_TypeFirst(file) ==
  IF file.type = "text/plain" \/ EndsWith(file.name, ".txt")
  THEN [reader |-> "text", mimeType |-> "text/plain"]
  ELSE IF EndsWith(file.name, ".docx")
       THEN [reader |-> "docx", mimeType |-> "text/plain"]
       ELSE [reader |-> "base64", mimeType |-> file.type]

\* App.tsx:105-116: which reader is awaited and which mime type is sent
ContentRoute(file) ==
  IF EndsWith(file.name, ".docx")
  THEN [reader |-> "docx", mimeType |-> "text/plain"]
  ELSE IF file.type = "text/plain" \/ EndsWith(file.name, ".txt")
       THEN [reader |-> "text", mimeType |-> "text/plain"]
       ELSE [reader |-> "base64", mimeType |-> file.type]

\* geminiService.ts:75-91: a text part for "text/plain", inlineData with
\* the mime type otherwise
ContentPart(mimeType) ==
  IF mimeType = "text/plain" THEN "text" ELSE "inlineData"

\* what extractRecipeFromImage(data, mimeType) hands to generateContent
\* for a file: the reader that produced data, the kind of part it is put
\* in and the mime type
Request(file) ==
  LET route == ContentRoute(file)
  IN [reader |-> route.reader, part |-> ContentPart(route.mimeType),
      mimeType |-> route.mimeType]

\* Values a rejected promise carries.  reader.onerror = reject rejects with
\* the ProgressEvent, which is not an Error; everything else is an Error.
ProgressEvent == [isError |-> FALSE, message |-> ""]
Err(m) == [isError |-> TRUE, message |-> m]

ReadFailures(file) ==
  IF ContentRoute(file).reader = "docx"
  THEN {ProgressEvent, Err("mammoth: could not read document")}
  ELSE {ProgressEvent}

\* Rejections of extractRecipeFromImage after the call is issued.
ExtractFailures == {Err("No JSON response generated.")}

MissingKey == Err("API Key is missing in environment variables.")

\* error instanceof Error ? error.message : "Unknown error"
ErrorMessage(e) == IF e.isError THEN e.message ELSE "Unknown error"

\* recipe.original_file_name = item.file.name
Stamp(recipe, fileName) == ("original_file_name" :> fileName) @@ recipe

\* a success that stores the record and leaves the status as it is
OnSuccess_Stuck(f, recipe) == [f EXCEPT !.recipe = recipe]

OnSuccess(f, recipe) == [f EXCEPT !.status = REVIEW, !.recipe = recipe]

\* a catch block that puts the item back in the queue
OnFailure_Requeue(f, e) ==
  [f EXCEPT !.status = PENDING, !.error = ErrorMessage(e)]

OnFailure(f, e) == [f EXCEPT !.status = ERROR, !.error = ErrorMessage(e)]

\* if (!activeFileId), activeFileId being the value the run captured
ShouldAutoSelect(run) == Falsy(run.activeFileId)

\* a failure after which the loop takes the same item again
IndexAfterFailure_Retry(run) == run.k

\* a failure that leaves the loop
IndexAfterFailure_Abort(run) == Len(run.pending) + 1

\* the loop continues with the next item of the snapshot after a failure
IndexAfterFailure(run) == run.k + 1

\* catch block of iteration run.k, then the next loop head
FailItem(r, e) ==
  LET run == runs[r]
      item == run.pending[run.k]
      fs1 == MapById(files, item.id,
                     [i \in DOMAIN files |-> OnFailure(files[i], e)])
  IN /\ LoopHead(fs1, r, run, IndexAfterFailure(run))
     /\ data' = NextData(files', activeFileId, FALSE)
     /\ formEvent' = ""
     /\ UNCHANGED <<activeFileId, apiKey, calls>>
     /\ Silent

\* the awaited reader settles; on success extractRecipeFromImage is called
ReadSettle ==
  \E r \in DOMAIN runs :
    /\ runs[r].phase = "read"
    /\ LET run == runs[r]
           item == run.pending[run.k]
       IN \/ /\ apiKey
             /\ busyReturn' = FALSE
             /\ runs' = [runs EXCEPT ![r].phase = "extract",
                                     ![r].request = Request(item.file)]
             /\ calls' = [calls EXCEPT ![item.pos] = @ + 1]
             /\ formEvent' = ""
             /\ UNCHANGED <<files, activeFileId, isProcessing, data, apiKey>>
             /\ Silent
          \/ /\ ~apiKey
             /\ busyReturn' = FALSE
             /\ FailItem(r, MissingKey)
          \/ \E e \in ReadFailures(item.file) :
               /\ busyReturn' = FALSE
               /\ FailItem(r, e)

\* response.text that is not a JSON document, and the document null
Malformed == [malformed |-> TRUE]
JsonNull == [null |-> TRUE]

\* JSON.parse(response.text) throws a SyntaxError on a text that is not
\* JSON; recipe.original_file_name = ... throws a TypeError on null.  Any
\* other document is returned as Recipe and stamped: nothing compares it
\* with RECIPE_SCHEMA.
ParseFailure(resp) ==
  IF resp = Malformed THEN Err("Unexpected end of JSON input")
  ELSE Err("Cannot set properties of null (setting 'original_file_name')")

Parses(resp) == resp # Malformed /\ resp # JsonNull

\* the outstanding generateContent call of run r settles with the text of
\* the document resp
ExtractSettleOf(r, resp) ==
  /\ runs[r].phase = "extract"
  /\ LET run == runs[r]
         item == run.pending[run.k]
     IN IF Parses(resp)
        THEN LET recipe == Stamp(resp, item.file.name)
                 fs1 == MapById(files, item.id,
                          [i \in DOMAIN files |-> OnSuccess(files[i], recipe)])
             IN /\ busyReturn' = FALSE
                /\ activeFileId' = IF ShouldAutoSelect(run) THEN item.id
                                   ELSE activeFileId
                /\ LoopHead(fs1, r, run, run.k + 1)
                /\ data' = NextData(files', activeFileId',
                                    activeFileId' = item.id)
                /\ formEvent' = ""
                /\ UNCHANGED <<apiKey, calls>>
                /\ Silent
        ELSE /\ busyReturn' = FALSE
             /\ FailItem(r, ParseFailure(resp))

\* the outstanding generateContent call of run r settles without a text,
\* or rejects
ExtractFailOf(r) ==
  /\ runs[r].phase = "extract"
  /\ \E e \in ExtractFailures :
       /\ busyReturn' = FALSE
       /\ FailItem(r, e)

\* the outstanding generateContent call settles
ExtractSettle ==
  \E r \in DOMAIN runs :
    \/ \E resp \in Responses : ExtractSettleOf(r, resp)
    \/ ExtractFailOf(r)

\* ------------------------------------------------------------- selection
Selectable(f) == f.status = REVIEW \/ f.status = COMPLETED

\* the form is rendered and its working copy differs from the stored record
Unsaved(fs, aid) ==
  /\ FormMounted(fs, aid)
  /\ data # fs[ActiveIndex(fs, aid)].recipe

\* queue item onClick
Select ==
  \E i \in DOMAIN files :
    /\ busyReturn' = FALSE
    /\ activeFileId' = IF Selectable(files[i]) THEN files[i].id
                       ELSE activeFileId
    /\ data' = NextData(files, activeFileId', activeFileId' # activeFileId)
    /\ formEvent' = IF Unsaved(files, activeFileId)
                         /\ activeFileId' # activeFileId
                      THEN "switched" ELSE ""
    /\ UNCHANGED <<files, isProcessing, runs, apiKey, calls>>
    /\ Silent

\* ----------------------------------------------------------- review form
\* handleChange('name', value)
HandleChange ==
  /\ FormMounted(files, activeFileId)
  /\ \E v \in NameValues :
       /\ IF "name" \in DOMAIN data THEN v # data.name ELSE TRUE
       /\ data' = ("name" :> v) @@ data
  /\ busyReturn' = FALSE
  /\ formEvent' = ""
  /\ UNCHANGED <<files, activeFileId, isProcessing, runs, apiKey>>
  /\ UNCHANGED <<calls>>
  /\ Silent

\* a save that keeps the record of an item that is already COMPLETED
OnSave_Frozen(f, updatedRecipe) ==
  IF f.status = COMPLETED THEN f
  ELSE [f EXCEPT !.status = COMPLETED, !.recipe = updatedRecipe]

\* a save that toggles between REVIEW and COMPLETED
OnSave_Toggle(f, updatedRecipe) ==
  [f EXCEPT !.status = IF f.status = COMPLETED THEN REVIEW ELSE COMPLETED,
            !.recipe = updatedRecipe]

OnSave(f, updatedRecipe) ==
  [f EXCEPT !.status = COMPLETED, !.recipe = updatedRecipe]

handleRecipeSave(updatedRecipe) ==
  IF Falsy(activeFileId)
  THEN UNCHANGED <<files, activeFileId, data>>
  ELSE /\ files' = MapById(files, activeFileId,
                   [i \in DOMAIN files |-> OnSave(files[i], updatedRecipe)])
       /\ activeFileId' = NullId
       /\ data' = NextData(files', activeFileId', FALSE)

\* Confirm Data button: onSave(data)
Confirm ==
  /\ FormMounted(files, activeFileId)
  /\ handleRecipeSave(data)
  /\ busyReturn' = FALSE
  /\ formEvent' = IF /\ ~Falsy(activeFileId)
                      /\ files[ActiveIndex(files, activeFileId)].status
                           = COMPLETED
                      /\ ~Unsaved(files, activeFileId)
                   THEN "resaved" ELSE ""
  /\ UNCHANGED <<isProcessing, runs, apiKey, calls>>
  /\ Silent

\* a Cancel button wired to onSave
Cancel_Saves == Confirm

\* Cancel button: onCancel = () => setActiveFileId(null)
Cancel ==
  /\ FormMounted(files, activeFileId)
  /\ activeFileId' = NullId
  /\ data' = NextData(files, activeFileId', FALSE)
  /\ busyReturn' = FALSE
  /\ formEvent' = IF Unsaved(files, activeFileId) THEN "discarded" ELSE ""
  /\ UNCHANGED <<files, isProcessing, runs, apiKey, calls>>
  /\ Silent

\* ------------------------------------------------------------------ Next
Next ==
  \/ Add
  \/ StartProcessing
  \/ ReadSettle
  \/ ExtractSettle
  \/ Select
  \/ HandleChange
  \/ Confirm
  \/ Cancel

Spec == Init /\ [][Next]_vars

\* Every awaited promise eventually settles.
LiveSpec == Spec /\ WF_vars(ReadSettle) /\ WF_vars(ExtractSettle)

\* ================================================================ export
\* ------------------------------------------------------------ parseFloat
\* A text is the sequence of its characters.  A number is m * 10^(-s) in
\* lowest form; NaN is the value parseFloat gives a text without a numeral.
Digits == {"0", "1", "2", "3", "4", "5", "6", "7", "8", "9"}

DigitValue(c) ==
  CASE c = "0" -> 0 [] c = "1" -> 1 [] c = "2" -> 2 [] c = "3" -> 3
    [] c = "4" -> 4 [] c = "5" -> 5 [] c = "6" -> 6 [] c = "7" -> 7
    [] c = "8" -> 8 [] c = "9" -> 9

NaN == [nan |-> TRUE]

RECURSIVE Num(_, _)
Num(m, s) ==
  IF s > 0 /\ m % 10 = 0 THEN Num(m \div 10, s - 1)
  ELSE [nan |-> FALSE, m |-> m, s |-> s]

\* leading white space is skipped
RECURSIVE SkipWhiteSpace(_)
SkipWhiteSpace(t) ==
  IF t # <<>> /\ Head(t) = " " THEN SkipWhiteSpace(Tail(t)) ELSE t

\* the longest prefix of t made of decimal digits
RECURSIVE LeadingDigits(_)
LeadingDigits(t) ==
  IF t # <<>> /\ Head(t) \in Digits
  THEN <<Head(t)>> \o LeadingDigits(Tail(t))
  ELSE <<>>

RECURSIVE ToNat(_)
ToNat(ds) ==
  IF ds = <<>> THEN 0
  ELSE 10 * ToNat(SubSeq(ds, 1, Len(ds) - 1)) + DigitValue(ds[Len(ds)])

\* parseFloat(text): the value of the longest prefix of the trimmed text
\* that is a decimal literal (sign, digits, fraction), NaN if there is none;
\* whatever follows that prefix is ignored.  Exponents and Infinity are
\* left out: the texts explored hold no letter e and no letter I.
ParseFloat(text) ==
  LET t == SkipWhiteSpace(text)
      signed == t # <<>> /\ Head(t) \in {"+", "-"}
      body == IF signed THEN Tail(t) ELSE t
      int == LeadingDigits(body)
      rest == SubSeq(body, Len(int) + 1, Len(body))
      frac == IF rest # <<>> /\ Head(rest) = "."
              THEN LeadingDigits(Tail(rest)) ELSE <<>>
      mag == ToNat(int \o frac)
  IN IF int = <<>> /\ frac = <<>> THEN NaN
     ELSE Num(IF signed /\ Head(t) = "-" THEN 0 - mag ELSE mag, Len(frac))

\* x || 0 for a number x: NaN and zero are falsy
OrZero(x) == IF x = NaN \/ x.m = 0 THEN Num(0, 0) ELSE x

\* parseFloat(ing.amount) || 0
AmountOf(text) == OrZero(ParseFloat(text))

\* --------------------------------------------------------------- payload
\* recipe.ingredients || [], recipe.steps || [], recipe.keywords || []
OrEmpty(rec, field) == IF field \in DOMAIN rec THEN rec[field] ELSE <<>>

\* ing.note || ''
NoteOf(ing) == IF "note" \in DOMAIN ing THEN ing.note ELSE ""

MapIngredient(ing) ==
  [amount |-> AmountOf(ing.amount), unit |-> [name |-> ing.unit],
   food |-> [name |-> ing.name], note |-> NoteOf(ing)]

\* a mapping that repeats the ingredients in every step
StepIngredients_All(index, mappedIngredients) == mappedIngredients

\* index === 0 ? mappedIngredients : [], the first index being 1 here
StepIngredients(index, mappedIngredients) ==
  IF index = 1 THEN mappedIngredients ELSE <<>>

\* a mapping that sends the cook time as working time
WorkingTime_Cook(recipe) == recipe.cook_time_minutes

WorkingTime(recipe) == recipe.prep_time_minutes

Payload(recipe) ==
  LET ingredients == OrEmpty(recipe, "ingredients")
      mappedIngredients ==
        [i \in DOMAIN ingredients |-> MapIngredient(ingredients[i])]
      recipeSteps == OrEmpty(recipe, "steps")
      keywords == OrEmpty(recipe, "keywords")
  IN [ name |-> recipe.name,
       description |-> recipe.description,
       steps |-> [i \in DOMAIN recipeSteps |->
                    [instruction |-> recipeSteps[i].instruction,
                     ingredients |-> StepIngredients(i, mappedIngredients)]],
       servings |-> recipe.servings,
       working_time |-> WorkingTime(recipe),
       waiting_time |-> recipe.cook_time_minutes,
       keywords |-> [k \in DOMAIN keywords |-> [name |-> keywords[k]]] ]

\* the recipe of the Test Tandoor Connection button
TestRecipe ==
  [ name |-> "Test Recipe - Chocolate Chip Cookies",
    description |->
      "A simple test recipe to verify Tandoor integration is working correctly.",
    servings |-> 24, prep_time_minutes |-> 15, cook_time_minutes |-> 12,
    ingredients |->
      << [amount |-> <<"2", ".", "2", "5">>, unit |-> "cups",
          name |-> "all-purpose flour", note |-> ""],
         [amount |-> <<"1">>, unit |-> "tsp", name |-> "baking soda",
          note |-> ""],
         [amount |-> <<"1">>, unit |-> "cup", name |-> "butter",
          note |-> "softened"],
         [amount |-> <<"0", ".", "7", "5">>, unit |-> "cup", name |-> "sugar",
          note |-> ""],
         [amount |-> <<"2">>, unit |-> "cups", name |-> "chocolate chips",
          note |-> ""] >>,
    steps |->
      << [instruction |-> "Preheat oven to 375F (190C)."],
         [instruction |-> "Mix flour and baking soda in a bowl."],
         [instruction |-> "Cream butter and sugar until fluffy."],
         [instruction |->
            "Combine wet and dry ingredients, then fold in chocolate chips."],
         [instruction |->
            "Drop spoonfuls onto baking sheet and bake for 10-12 minutes."] >>,
    keywords |-> <<"test", "cookies", "dessert">> ]

\* ---------------------------------------------------------------- alerts
AlertNotConfigured ==
  <<"Tandoor API Key not configured. Please set TANDOOR_API_KEY environment variable.">>

AlertSuccess == <<"Successfully uploaded to Tandoor!">>

\* a failure message without the status
AlertFailed_NoStatus(status) ==
  <<"Failed to upload. Check console for details.">>

\* `Failed to upload (Status ${response.status}). Check console ...`
AlertFailed(status) ==
  <<"Failed to upload (Status ", ToString(status),
    "). Check console for details. Tandoor API might require pre-existing Food IDs.">>

AlertNetwork ==
  <<"Network error connecting to Tandoor. Check console for details.">>

\* ------------------------------------------------------- uploadToTandoor
\* Status codes the Tandoor API answers with.
HttpStatuses == {201, 400, 500}

\* bodies the external API answers with
ResponseTexts == {"{\"detail\":\"Invalid token.\"}", "<h1>Server Error</h1>"}

\* a console.error of the non-ok branch that leaves the body out
LogFailed_NoBody(status, err) ==
  <<"Tandoor upload failed. Status:", ToString(status)>>

\* console.error of the non-ok branch: the status line, then the body
LogFailed(status, err) ==
  <<"Tandoor upload failed. Status:", ToString(status), "Error details:", err>>

\* console.error of the catch block
LogException == <<"Exception during Tandoor upload:", "error">>

\* response.ok
Ok(status) == 200 <= status /\ status <= 299

RemoveAt(seq, k) ==
  [i \in 1 .. Len(seq) - 1 |-> IF i < k THEN seq[i] ELSE seq[i + 1]]

\* an upload that takes the processing flag while it is sent
uploadToTandoor_Busy(recipe) ==
  /\ alertMsg' = IF tandoorKey THEN NoAlert ELSE AlertNotConfigured
  /\ fetches' = IF tandoorKey /\ recipe # NoRecipe
                THEN Append(fetches,
                       [recipe |-> recipe, body |-> Payload(recipe),
                        phase |-> "fetch", status |-> 0])
                ELSE fetches
  /\ isProcessing' = TRUE
  /\ uploadLog' = NoLog
  /\ download' = NoDownload
  /\ busyReturn' = FALSE
  /\ formEvent' = ""
  /\ UNCHANGED <<files, activeFileId, data, runs, apiKey, calls, tandoorKey>>

\* uploadToTandoor(recipe) up to its await fetch(...).  Without a token it
\* alerts and returns.  A missing record makes recipe.ingredients throw
\* before the try block: nothing is sent and nothing is shown.
uploadToTandoor(recipe) ==
  /\ IF ~tandoorKey
     THEN /\ alertMsg' = AlertNotConfigured
          /\ UNCHANGED fetches
     ELSE IF recipe = NoRecipe
          THEN /\ alertMsg' = NoAlert
               /\ UNCHANGED fetches
          ELSE /\ fetches' = Append(fetches,
                    [recipe |-> recipe, body |-> Payload(recipe),
                     phase |-> "fetch", status |-> 0])
               /\ alertMsg' = NoAlert
  /\ uploadLog' = NoLog
  /\ download' = NoDownload
  /\ busyReturn' = FALSE
  /\ formEvent' = ""
  /\ UNCHANGED <<files, activeFileId, isProcessing, data, runs, apiKey,
                 calls, tandoorKey>>

\* Upload to Tandoor button of a COMPLETED item: uploadToTandoor(item.recipe!)
Upload ==
  \E i \in DOMAIN files :
    /\ files[i].status = COMPLETED
    /\ Len(fetches) < MaxFetch
    /\ uploadToTandoor(files[i].recipe)

\* Test Tandoor Connection button
testTandoorConnection ==
  /\ Len(fetches) < MaxFetch
  /\ uploadToTandoor(TestRecipe)

\* the fetch of upload k settles: a response arrives and its body is
\* awaited (response.json() if ok, response.text() otherwise), or the fetch
\* rejects and the catch block alerts
FetchSettleOf(k) ==
  /\ fetches[k].phase = "fetch"
  /\ \/ \E status \in HttpStatuses :
          /\ fetches' = [fetches EXCEPT ![k].phase = "body",
                                        ![k].status = status]
          /\ alertMsg' = NoAlert
          /\ uploadLog' = NoLog
     \/ /\ fetches' = RemoveAt(fetches, k)
        /\ alertMsg' = AlertNetwork
        /\ uploadLog' = LogException
  /\ download' = NoDownload
  /\ busyReturn' = FALSE
  /\ formEvent' = ""
  /\ UNCHANGED <<files, activeFileId, isProcessing, data, runs, apiKey,
                 calls, tandoorKey>>

FetchSettle == \E k \in DOMAIN fetches : FetchSettleOf(k)

\* the body read of upload k settles: resolved with the text the body
\* holds, the branch's alert is shown; rejected (the stream broke, or response.json() met a body that is
\* not JSON), the catch block alerts
BodyResolveOf(k, text) ==
  /\ fetches[k].phase = "body"
  /\ IF Ok(fetches[k].status)
     THEN /\ alertMsg' = AlertSuccess
          /\ uploadLog' = NoLog
     ELSE /\ alertMsg' = AlertFailed(fetches[k].status)
          /\ uploadLog' = LogFailed(fetches[k].status, text)
  /\ fetches' = RemoveAt(fetches, k)
  /\ download' = NoDownload
  /\ busyReturn' = FALSE
  /\ formEvent' = ""
  /\ UNCHANGED <<files, activeFileId, isProcessing, data, runs, apiKey,
                 calls, tandoorKey>>

BodyRejectOf(k) ==
  /\ fetches[k].phase = "body"
  /\ alertMsg' = AlertNetwork
  /\ uploadLog' = LogException
  /\ fetches' = RemoveAt(fetches, k)
  /\ download' = NoDownload
  /\ busyReturn' = FALSE
  /\ formEvent' = ""
  /\ UNCHANGED <<files, activeFileId, isProcessing, data, runs, apiKey,
                 calls, tandoorKey>>

BodySettleOf(k) ==
  \/ \E text \in ResponseTexts : BodyResolveOf(k, text)
  \/ BodyRejectOf(k)

BodySettle == \E k \in DOMAIN fetches : BodySettleOf(k)

\* ------------------------------------------------------- export sessions
\* Records a COMPLETED item can hold when its upload button is pressed:
\* every amount text up to MaxAmountLen over AmountChars on one ingredient,
\* and every shape of ingredient, step and keyword list up to the bounds.
AmountChars == {"0", "1", "2", ".", "/", "-", " ", "x"}

AmountTexts == UNION {[1 .. n -> AmountChars] : n \in 0 .. MaxAmountLen}

Flour(text) == [amount |-> text, unit |-> "cups", name |-> "flour"]

Egg == [amount |-> <<"1">>, unit |-> "", name |-> "egg", note |-> "beaten"]

StepAt(i) == [instruction |-> IF i % 2 = 1 THEN "Mix" ELSE "Bake"]

KeywordAt(i) == IF i % 2 = 1 THEN "Dinner" ELSE "Quick"

RecipeOf(ingredients, nSteps, nKeywords) ==
  [ name |-> "Soup", description |-> "", servings |-> 2,
    prep_time_minutes |-> 5, cook_time_minutes |-> 10,
    ingredients |-> ingredients,
    steps |-> [i \in 1 .. nSteps |-> StepAt(i)],
    keywords |-> [i \in 1 .. nKeywords |-> KeywordAt(i)] ]

ExportRecipes ==
  {RecipeOf(<<Flour(t)>>, 1, 0) : t \in AmountTexts}
    \cup {RecipeOf(ings, ns, nk) :
            ings \in UNION {[1 .. n -> {Flour(<<"2">>), Egg}] :
                              n \in 0 .. MaxIngredients},
            ns \in 0 .. MaxSteps, nk \in 0 .. MaxKeywords}

\* A session in which one extracted and confirmed item waits for its upload.
ExportInit ==
  /\ files \in {<<[id |-> 1, file |-> PngFile, status |-> COMPLETED,
                   recipe |-> Stamp(r, PngFile.name), error |-> NoError]>> :
                  r \in ExportRecipes}
  /\ activeFileId = NullId
  /\ isProcessing = FALSE
  /\ data = NoRecipe
  /\ runs = <<>>
  /\ apiKey = TRUE
  /\ busyReturn = FALSE
  /\ calls = <<1>>
  /\ formEvent = ""
  /\ tandoorKey \in BOOLEAN
  /\ fetches = <<>>
  /\ alertMsg = NoAlert
  /\ uploadLog = NoLog
  /\ download = NoDownload

ExportNext ==
  \/ Upload
  \/ testTandoorConnection
  \/ FetchSettle
  \/ BodySettle

ExportSpec == ExportInit /\ [][ExportNext]_vars

\* -------------------------------------------------------------- downloads
\* JSON.stringify(value, null, 2) behind the data: URI prefix.  The text
\* is determined by the value and keeps its keys and their values; it is
\* written as the value under a tag.
Stringify(value) == [json |-> value]

\* `${item.recipe.name || 'recipe'}.json`
DownloadName(recipe) ==
  IF "name" \in DOMAIN recipe /\ recipe.name # ""
  THEN <<recipe.name, ".json">>
  ELSE <<"recipe", ".json">>

\* files.find(f => f.id === fileId): the first item with that id, if any
FindById(fs, fileId) ==
  LET found == {i \in DOMAIN fs : fs[i].id = fileId}
  IN IF found = {} THEN 0
     ELSE CHOOSE i \in found : \A j \in found : i <= j

\* the records of fs[i..], whatever the status
RECURSIVE RecipesFrom(_, _)
RecipesFrom(fs, i) ==
  IF i > Len(fs) THEN <<>>
  ELSE IF fs[i].recipe # NoRecipe
       THEN <<fs[i].recipe>> \o RecipesFrom(fs, i + 1)
       ELSE RecipesFrom(fs, i + 1)

\* a batch that takes the items still in review too
CompletedRecipes_Reviewed(fs) == RecipesFrom(fs, 1)

\* .filter(f => f.status === COMPLETED && f.recipe).map(f => f.recipe)
\* over fs[i..]
RECURSIVE CompletedFrom(_, _)
CompletedFrom(fs, i) ==
  IF i > Len(fs) THEN <<>>
  ELSE IF fs[i].status = COMPLETED /\ fs[i].recipe # NoRecipe
       THEN <<fs[i].recipe>> \o CompletedFrom(fs, i + 1)
       ELSE CompletedFrom(fs, i + 1)

CompletedRecipes(fs) == CompletedFrom(fs, 1)

\* handleDownloadJson(fileId)
handleDownloadJson(fileId) ==
  LET i == FindById(files, fileId)
  IN /\ download' = IF i # 0 /\ files[i].recipe # NoRecipe
                    THEN [name |-> DownloadName(files[i].recipe),
                          content |-> Stringify(files[i].recipe)]
                    ELSE NoDownload
     /\ alertMsg' = NoAlert
     /\ uploadLog' = NoLog
     /\ busyReturn' = FALSE
     /\ formEvent' = ""
     /\ UNCHANGED <<files, activeFileId, isProcessing, data, runs, apiKey,
                    calls, tandoorKey, fetches>>

\* Download JSON button of a COMPLETED item: handleDownloadJson(item.id)
Download ==
  \E i \in DOMAIN files :
    /\ files[i].status = COMPLETED
    /\ handleDownloadJson(files[i].id)

\* handleDownloadAll().  The Download All button is rendered when some
\* item is COMPLETED; the handler tests again and returns when it finds
\* no completed record.
handleDownloadAll ==
  LET completed == CompletedRecipes(files)
  IN /\ download' = IF Len(completed) = 0 THEN NoDownload
                    ELSE [name |-> <<"tandoor_import_batch", ".json">>,
                          content |-> Stringify(completed)]
     /\ alertMsg' = NoAlert
     /\ uploadLog' = NoLog
     /\ busyReturn' = FALSE
     /\ formEvent' = ""
     /\ UNCHANGED <<files, activeFileId, isProcessing, data, runs, apiKey,
                    calls, tandoorKey, fetches>>

DownloadNext ==
  \/ Download
  \/ handleDownloadAll

\* ------------------------------------------------------- routing sessions
\* Files whose name and declared type vary independently: the extension is
\* the last token of the name, in lower or upper case, and the browser
\* may declare any type, or none, for any name.
RouteNames ==
  {<<"notes", ".docx">>, <<"notes", ".DOCX">>, <<"notes", ".txt">>,
   <<"notes.docx", ".pdf">>, <<"scan", ".png">>}

RouteTypes == {"", "text/plain", "image/png", "application/pdf"}

RouteFiles == [name : RouteNames, type : RouteTypes]

\* a queue holding one such file, just added
RouteInit ==
  /\ files \in {<<NewItem(1, file)>> : file \in RouteFiles}
  /\ activeFileId = NullId
  /\ isProcessing = FALSE
  /\ data = NoRecipe
  /\ runs = <<>>
  /\ apiKey = TRUE
  /\ busyReturn = FALSE
  /\ calls = <<0>>
  /\ formEvent = ""
  /\ tandoorKey = FALSE
  /\ fetches = <<>>
  /\ alertMsg = NoAlert
  /\ uploadLog = NoLog
  /\ download = NoDownload

\* the file is processed and reviewed; nothing is added
RouteNext ==
  \/ StartProcessing
  \/ ReadSettle
  \/ ExtractSettle
  \/ Select
  \/ HandleChange
  \/ Confirm
  \/ Cancel

RouteSpec == RouteInit /\ [][RouteNext]_vars

\* --------------------------------------------------------- reply sessions
\* Sessions of the queue in which the service may answer with any text:
\* a document of the schema, an object without the name, an object with
\* nothing but a name, the document null, or a text cut off before its end.
NoNameReply ==
  [ingredients |-> << [amount |-> <<"2">>, unit |-> "cups",
                       name |-> "flour"] >>,
   steps |-> << [instruction |-> "Mix"] >>]

NameOnlyReply == [name |-> "Soup"]

Replies == Responses \cup {NoNameReply, NameOnlyReply, JsonNull, Malformed}

\* required: ["name", "ingredients", "steps"] of RECIPE_SCHEMA
Conforms(resp) ==
  /\ resp # Malformed
  /\ resp # JsonNull
  /\ {"name", "ingredients", "steps"} \subseteq DOMAIN resp

\* RecipeReview renders data.ingredients.map(...) and data.steps.map(...):
\* on a working copy without one of the lists the render throws and, there
\* being no error boundary, React unmounts the page.  The state of the
\* page does not change from then on.
Crashed ==
  /\ data # NoRecipe
  /\ ~({"ingredients", "steps"} \subseteq DOMAIN data)

ExtractSettleAny ==
  \E r \in DOMAIN runs :
    \/ \E resp \in Replies : ExtractSettleOf(r, resp)
    \/ ExtractFailOf(r)

\* the handlers and continuations of a page that is still mounted
LiveAdd == ~Crashed /\ Add
LiveStartProcessing == ~Crashed /\ StartProcessing
LiveReadSettle == ~Crashed /\ ReadSettle
LiveExtractSettle == ~Crashed /\ ExtractSettleAny
LiveSelect == ~Crashed /\ Select
LiveHandleChange == ~Crashed /\ HandleChange
LiveConfirm == ~Crashed /\ Confirm
LiveCancel == ~Crashed /\ Cancel

ReplyNext ==
  \/ LiveAdd
  \/ LiveStartProcessing
  \/ LiveReadSettle
  \/ LiveExtractSettle
  \/ LiveSelect
  \/ LiveHandleChange
  \/ LiveConfirm
  \/ LiveCancel

ReplySpec == Init /\ [][ReplyNext]_vars

\* ---------------------------------------------------------- form sessions
\* The list handlers of RecipeReview.  Each runs in its own event, on the
\* working copy of the last render.
ListOrEmpty(rec, field) == IF field \in DOMAIN rec THEN rec[field] ELSE <<>>

\* { name: '', amount: '', unit: '' }, { instruction: '' } and ''
EmptyIngredient == [name |-> "", amount |-> <<>>, unit |-> ""]
EmptyStep == [instruction |-> ""]
EmptyKeyword == ""

\* an append that puts the new entry first
AppendEntry_Front(list, entry) == <<entry>> \o list

\* [...list, entry]
AppendEntry(list, entry) == list \o <<entry>>

\* setData of a handler of the mounted form
FormStep(newData) ==
  /\ FormMounted(files, activeFileId)
  /\ data' = newData
  /\ busyReturn' = FALSE
  /\ formEvent' = ""
  /\ UNCHANGED <<files, activeFileId, isProcessing, runs, apiKey, calls>>
  /\ Silent

addIngredient ==
  /\ data # NoRecipe
  /\ Len(data.ingredients) < MaxFormList
  /\ FormStep([data EXCEPT
                 !.ingredients = AppendEntry(@, EmptyIngredient)])

addStep ==
  /\ data # NoRecipe
  /\ Len(ListOrEmpty(data, "steps")) < MaxFormList
  /\ FormStep(("steps" :> AppendEntry(ListOrEmpty(data, "steps"), EmptyStep))
                @@ data)

addKeyword ==
  /\ data # NoRecipe
  /\ Len(ListOrEmpty(data, "keywords")) < MaxFormList
  /\ FormStep(("keywords" :> AppendEntry(ListOrEmpty(data, "keywords"),
                                         EmptyKeyword)) @@ data)

\* removeKeyword(index): splice(index, 1) on a copy
removeKeyword ==
  /\ data # NoRecipe
  /\ \E k \in DOMAIN ListOrEmpty(data, "keywords") :
       FormStep(("keywords" :> RemoveAt(data.keywords, k)) @@ data)

\* texts typed into an entry
TypedIngredientName == "salt"
TypedInstruction == "Stir"
TypedKeyword == "Vegan"

\* handleIngredientChange(index, 'name', value)
handleIngredientChange ==
  /\ data # NoRecipe
  /\ \E k \in DOMAIN data.ingredients :
       /\ data.ingredients[k].name # TypedIngredientName
       /\ FormStep([data EXCEPT
                      !.ingredients[k] = ("name" :> TypedIngredientName) @@ @])

\* handleStepChange(index, value)
handleStepChange ==
  /\ data # NoRecipe
  /\ \E k \in DOMAIN data.steps :
       /\ data.steps[k].instruction # TypedInstruction
       /\ FormStep([data EXCEPT
                      !.steps[k] = ("instruction" :> TypedInstruction) @@ @])

\* handleKeywordChange(index, value)
handleKeywordChange ==
  /\ data # NoRecipe
  /\ \E k \in DOMAIN ListOrEmpty(data, "keywords") :
       /\ data.keywords[k] # TypedKeyword
       /\ FormStep([data EXCEPT !.keywords[k] = TypedKeyword])

\* records the form is seeded with: lists of every length up to MaxSeedLen,
\* and the same without the optional keywords
WithoutKeywords(recipe) ==
  [f \in DOMAIN recipe \ {"keywords"} |-> recipe[f]]

SeedLists == {RecipeOf([i \in 1 .. ni |-> Egg], ns, nk) :
                ni \in 0 .. MaxSeedLen, ns \in 0 .. MaxSeedLen,
                nk \in 0 .. MaxSeedLen}

FormSeeds ==
  {Stamp(r, PngFile.name) : r \in SeedLists}
    \cup {Stamp(WithoutKeywords(r), PngFile.name) : r \in SeedLists}

\* one extracted item, selected: the form has just been seeded
FormInit ==
  /\ files \in {<<[id |-> 1, file |-> PngFile, status |-> REVIEW,
                   recipe |-> r, error |-> NoError]>> : r \in FormSeeds}
  /\ activeFileId = 1
  /\ isProcessing = FALSE
  /\ data = files[1].recipe
  /\ runs = <<>>
  /\ apiKey = TRUE
  /\ busyReturn = FALSE
  /\ calls = <<1>>
  /\ formEvent = ""
  /\ tandoorKey = FALSE
  /\ fetches = <<>>
  /\ alertMsg = NoAlert
  /\ uploadLog = NoLog
  /\ download = NoDownload

FormNext ==
  \/ addIngredient
  \/ addStep
  \/ addKeyword
  \/ removeKeyword
  \/ handleIngredientChange
  \/ handleStepChange
  \/ handleKeywordChange
  \/ Confirm
  \/ Cancel

FormSpec == FormInit /\ [][FormNext]_vars

\* ----------------------------------------------------------- app sessions
\* The whole page: the queue and the Tandoor buttons together, so that an
\* upload and its continuations interleave with a batch run.
AppInit ==
  /\ files = <<>>
  /\ activeFileId = NullId
  /\ isProcessing = FALSE
  /\ data = NoRecipe
  /\ runs = <<>>
  /\ apiKey \in BOOLEAN
  /\ busyReturn = FALSE
  /\ calls = <<>>
  /\ formEvent = ""
  /\ tandoorKey \in BOOLEAN
  /\ fetches = <<>>
  /\ alertMsg = NoAlert
  /\ uploadLog = NoLog
  /\ download = NoDownload

AppNext ==
  \/ Next
  \/ ExportNext
  \/ DownloadNext

AppSpec == AppInit /\ [][AppNext]_vars

TypeOK ==
  /\ Len(files) <= MaxItems
  /\ \A i \in DOMAIN files :
       /\ files[i].status \in ProcessStatus
       /\ files[i].file \in FileSet
       /\ files[i].id \in IdTokens
  /\ isProcessing \in BOOLEAN
  /\ Len(calls) = Len(files)
  /\ Len(fetches) <= MaxFetch
  /\ \A k \in DOMAIN fetches : fetches[k].phase \in {"fetch", "body"}

\* ================================================================ claims
\* Helpers of the claims: the queue position of the item a run is working
\* on, and the status of the j-th item of a run's snapshot.
CurrentPos(r) == runs[r].pending[runs[r].k].pos

SnapshotStatus(r, j) == files[runs[r].pending[j].pos].status

\* C1: within a run the items of the snapshot are taken in queue order, one
\* at a time: snapshot item j+1 has left PENDING only if snapshot item j is
\* no longer PENDING or PROCESSING.
C1_SnapshotOrder ==
  \A r \in DOMAIN runs :
    \A j \in 1 .. Len(runs[r].pending) - 1 :
      /\ runs[r].pending[j].pos < runs[r].pending[j + 1].pos
      /\ SnapshotStatus(r, j + 1) # PENDING
           => SnapshotStatus(r, j) \notin {PENDING, PROCESSING}

\* C2: an item added while a run is in progress is not processed by that
\* run: every step taken while the run is active, its last one included,
\* leaves the items added after the run began PENDING.
C2_AddedMidRunStaysPending ==
  [][\A r \in DOMAIN runs :
       \A i \in DOMAIN files :
         i > runs[r].startLen => files'[i].status = PENDING]_vars

\* C3: a step in which an item becomes ERROR makes ERROR only the item the
\* run is working on, and that item carries a non-empty message.
C3_OnlyFailedItemErrs ==
  [][\A i \in DOMAIN files :
       (files[i].status # ERROR /\ files'[i].status = ERROR)
         => /\ \E r \in DOMAIN runs : CurrentPos(r) = i
            /\ files'[i].error \notin {NoError, ""}]_vars

\* C4: a run whose reads and calls all settle finishes: the flag is set
\* exactly while a run is suspended, the step that ends a run leaves no item
\* of its snapshot PENDING or PROCESSING (a failed item did not stop the
\* later ones) and clears the flag, and a set flag is eventually cleared.
C4_RunFinishes ==
  /\ [](isProcessing <=> runs # <<>>)
  /\ [][\A r \in DOMAIN runs :
          (Len(runs') < Len(runs))
            => /\ ~isProcessing'
               /\ runs[r].k = Len(runs[r].pending)
               /\ \A j \in 1 .. Len(runs[r].pending) :
                    files'[runs[r].pending[j].pos].status
                      \in {REVIEW, ERROR, COMPLETED}]_vars
  /\ (isProcessing ~> ~isProcessing)

\* C4 witness: a finished run in which an item failed and a later item of
\* the same snapshot was extracted.
C4_Witness ==
  /\ ~isProcessing
  /\ \E i, j \in DOMAIN files :
       /\ i < j
       /\ files[i].id # files[j].id
       /\ files[i].status = ERROR
       /\ files[j].status = REVIEW

\* C5: startProcessing invoked during a run is a no-op: it changes no item,
\* no selection and no run, and at most one run is ever suspended.
C5_BusyIsNoOp ==
  /\ [](Len(runs) <= 1)
  /\ [][(isProcessing /\ StartProcessing)
          => UNCHANGED <<files, activeFileId, isProcessing, data, runs>>]_vars

\* C5 witness: startProcessing was invoked while a run was waiting for an
\* extraction call and returned at its guard.
C5_Witness ==
  /\ busyReturn
  /\ isProcessing
  /\ \E r \in DOMAIN runs : runs[r].phase = "extract"

\* C6: at most one item is PROCESSING and at most one extraction call is
\* outstanding.
C6_OneInFlight ==
  /\ Cardinality({i \in DOMAIN files : files[i].status = PROCESSING}) <= 1
  /\ Cardinality({r \in DOMAIN runs : runs[r].phase = "extract"}) <= 1

\* The queue holds pairwise distinct, non-empty ids.
PlainIds ==
  \A i \in DOMAIN files :
    /\ files[i].id # EmptyId
    /\ \A j \in DOMAIN files : i # j => files[i].id # files[j].id

\* C7: a successful extraction changes the selection only if no item is
\* selected at that moment.  Stated for queues of pairwise distinct,
\* non-empty ids, so that a violation does not rest on the ids.
C7_AutoSelectOnlyIfNoneSelected ==
  [][(PlainIds /\ ExtractSettle /\ activeFileId' # activeFileId)
       => activeFileId = NullId]_vars

\* C8: an item is created PENDING, and an item that has left PENDING is
\* never PENDING again.
C8_NeverBackToPending ==
  [][\A i \in DOMAIN files' :
       IF i \in DOMAIN files
       THEN files[i].status # PENDING => files'[i].status # PENDING
       ELSE files'[i].status = PENDING]_vars

\* C8 witness: a finished run left an item in ERROR and another COMPLETED
\* after review.
C8_Witness ==
  /\ ~isProcessing
  /\ \E i, j \in DOMAIN files :
       /\ files[i].status = ERROR
       /\ files[j].status = COMPLETED

\* C9: an item in ERROR stays in ERROR with its message, and is never the
\* selected item.
C9_ErrorIsTerminal ==
  /\ [][\A i \in DOMAIN files :
          files[i].status = ERROR
            => /\ files'[i].status = ERROR
               /\ files'[i].error = files[i].error]_vars
  /\ [](\A i \in DOMAIN files :
          files[i].status = ERROR => files[i].id # activeFileId)

\* C10 as stated: the record of a COMPLETED item never changes.  Stated for
\* queues of pairwise distinct, non-empty ids, so that a violation does not
\* rest on the ids.
C10_CompletedIsFrozen ==
  [][PlainIds =>
       \A i \in DOMAIN files :
         files[i].status = COMPLETED
           => files'[i].recipe = files[i].recipe]_vars

\* C10 amended: the review form changes records only through confirm, which
\* stores the working copy on the items whose id is the selection, COMPLETED
\* ones included, and makes them COMPLETED; select, cancel and edits that
\* are not confirmed change no item.
C10_ConfirmReplacesRecord ==
  [][/\ Confirm
          => \A i \in DOMAIN files :
               IF files[i].id = activeFileId /\ ~Falsy(activeFileId)
               THEN /\ files'[i].recipe = data
                    /\ files'[i].status = COMPLETED
               ELSE files'[i] = files[i]
     /\ (Select \/ Cancel \/ HandleChange) => files' = files]_vars

\* C10 witness: a COMPLETED item holding a confirmed edit is selected again
\* and its working copy differs from its record.
C10_Witness ==
  \E i \in DOMAIN files :
    /\ files[i].status = COMPLETED
    /\ files[i].recipe.name = "Stew"
    /\ activeFileId = files[i].id
    /\ ActiveIndex(files, activeFileId) = i
    /\ data # files[i].recipe

\* C11: confirm with an item under review stores the working copy on
\* exactly that item, makes it COMPLETED and clears the selection; every
\* other item keeps its status, record and error.
C11_ConfirmStoresOnThatItem ==
  [][Confirm =>
       LET a == ActiveIndex(files, activeFileId)
       IN /\ files'[a].recipe = data
          /\ files'[a].status = COMPLETED
          /\ files'[a].error = files[a].error
          /\ activeFileId' = NullId
          /\ \A i \in DOMAIN files : i # a => files'[i] = files[i]]_vars

\* C12: cancel clears the selection and drops the working copy, and leaves
\* every queue item (status, record, error) as it was, whatever was typed
\* into the form.
C12_CancelChangesNoItem ==
  [][Cancel => /\ activeFileId' = NullId
               /\ data' = NoRecipe
               /\ files' = files]_vars

\* C12 witness: cancel has just dropped a working copy that held unsaved
\* edits; the item is still in REVIEW with the record it was extracted with.
C12_Witness ==
  /\ formEvent = "discarded"
  /\ activeFileId = NullId
  /\ data = NoRecipe
  /\ \E i \in DOMAIN files :
       /\ files[i].status = REVIEW
       /\ files[i].recipe.name = "Soup"

\* C13: a step after which the form shows a different item than before
\* leaves the working copy equal to the stored record of the item now
\* shown (nothing typed for the previous item is kept) and leaves the
\* stored record of the previous item as it was.
C13_SwitchReseeds ==
  [][LET a == ActiveIndex(files, activeFileId)
         b == ActiveIndex(files', activeFileId')
     IN (FormMounted(files, activeFileId)
           /\ FormMounted(files', activeFileId') /\ a # b)
          => /\ data' = files'[b].recipe
             /\ files'[a].recipe = files[a].recipe]_vars

\* C13 witness: the user has just moved from an item with unsaved edits to
\* another item, and the form shows the stored record of that item.
C13_Witness ==
  /\ formEvent = "switched"
  /\ FormMounted(files, activeFileId)
  /\ data = files[ActiveIndex(files, activeFileId)].recipe
  /\ \E i \in DOMAIN files :
       /\ files[i].id # activeFileId
       /\ files[i].status = REVIEW
       /\ files[i].recipe.name = "Soup"

\* C14: confirming a COMPLETED item whose fields were not changed leaves
\* the record and the status of that item as the first confirm left them.
C14_ReconfirmKeepsItem ==
  [][LET a == ActiveIndex(files, activeFileId)
     IN (Confirm /\ files[a].status = COMPLETED /\ data = files[a].recipe)
          => /\ files'[a].recipe = files[a].recipe
             /\ files'[a].status = COMPLETED]_vars

\* C14 witness: an item that holds a confirmed edit has just been
\* confirmed again without a change.
C14_Witness ==
  /\ formEvent = "resaved"
  /\ activeFileId = NullId
  /\ \E i \in DOMAIN files :
       /\ files[i].status = COMPLETED
       /\ files[i].recipe.name = "Stew"

\* C15: add appends one item per file at the end of the queue, in the
\* order of the files, each PENDING without record or error; it starts no
\* run and issues no call, and leaves the existing items, the selection
\* and the processing flag as they were, during a run as well.
C15_AddAppendsPending ==
  [][Add =>
       /\ Len(files') > Len(files)
       /\ \A i \in DOMAIN files : files'[i] = files[i]
       /\ \A i \in Len(files) + 1 .. Len(files') :
            /\ files'[i].status = PENDING
            /\ files'[i].recipe = NoRecipe
            /\ files'[i].error = NoError
            /\ files'[i].file = UploadedFile(i)
            /\ calls'[i] = 0
       /\ activeFileId' = activeFileId
       /\ isProcessing' = isProcessing
       /\ runs' = runs]_vars

\* C15 witness: a file was added while a run was waiting for an extraction
\* call; the item is at the end of the queue, PENDING, and the run goes on.
C15_Witness ==
  /\ isProcessing
  /\ \E r \in DOMAIN runs :
       /\ runs[r].phase = "extract"
       /\ Len(files) > runs[r].startLen
       /\ files[Len(files)].status = PENDING
       /\ files[Len(files)].id # files[CurrentPos(r)].id

\* C16: over its whole lifetime at most one extraction call is issued for
\* a queue item: an item that has been called and is in ERROR, REVIEW or
\* COMPLETED is not called again, neither by the run that called it nor
\* by a later run.
C16_AtMostOneCall ==
  /\ [](\A i \in DOMAIN files : calls[i] <= 1)
  /\ [][\A i \in DOMAIN files :
          (calls[i] >= 1 /\ files[i].status \in {ERROR, REVIEW, COMPLETED})
            => calls'[i] = calls[i]]_vars

\* C16 witness: a later run is waiting for the extraction call of another
\* item while an item whose one call failed is in ERROR.
C16_Witness ==
  \E r \in DOMAIN runs :
    /\ runs[r].phase = "extract"
    /\ \E i \in DOMAIN files :
         /\ i <= runs[r].startLen
         /\ \A j \in DOMAIN runs[r].pending : runs[r].pending[j].pos # i
         /\ files[i].status = ERROR
         /\ files[i].error = "No JSON response generated."
         /\ calls[i] = 1
         /\ calls[CurrentPos(r)] = 1

\* C17: in every payload sent, the ingredients of the recipe, all of them
\* and in their order, are in the first step, and every other step has an
\* empty ingredient list; the payload has as many steps as the recipe, so a
\* recipe without steps yields steps = <<>> and its ingredients are
\* dropped, and a recipe without ingredients yields a first step with an
\* empty list.
C17_IngredientsInFirstStep ==
  \A k \in DOMAIN fetches :
    LET r == fetches[k].recipe
        p == fetches[k].body
    IN /\ Len(p.steps) = Len(r.steps)
       /\ \A i \in DOMAIN p.steps :
            /\ p.steps[i].instruction = r.steps[i].instruction
            /\ IF i = 1
               THEN /\ Len(p.steps[i].ingredients) = Len(r.ingredients)
                    /\ \A j \in DOMAIN r.ingredients :
                         /\ p.steps[i].ingredients[j].food.name
                              = r.ingredients[j].name
                         /\ p.steps[i].ingredients[j].unit.name
                              = r.ingredients[j].unit
               ELSE p.steps[i].ingredients = <<>>

\* C17 witness: a payload of two steps for a recipe of two different
\* ingredients is on its way.
C17_Witness ==
  \E k \in DOMAIN fetches :
    /\ Len(fetches[k].recipe.steps) = 2
    /\ Len(fetches[k].recipe.ingredients) = 2
    /\ fetches[k].recipe.ingredients[1] # fetches[k].recipe.ingredients[2]
    /\ Len(fetches[k].body.steps[1].ingredients) = 2
    /\ fetches[k].body.steps[2].ingredients = <<>>

\* a text without a decimal digit
NoDigit(text) == \A i \in DOMAIN text : text[i] \notin Digits

\* C18: in every payload sent, the amount text "2" has become the number
\* 2, and the amount text "1/2", like every text without a digit, has
\* become the number 0.
C18_AmountParsing ==
  \A k \in DOMAIN fetches :
    LET r == fetches[k].recipe
        p == fetches[k].body
    IN Len(p.steps) > 0 =>
         \A j \in DOMAIN r.ingredients :
           LET text == r.ingredients[j].amount
               amount == p.steps[1].ingredients[j].amount
           IN /\ text = <<"2">> => amount = Num(2, 0)
              /\ text = <<"1", "/", "2">> => amount = Num(0, 0)
              /\ NoDigit(text) => amount = Num(0, 0)

\* C19: every payload sent carries name, description and servings of the
\* recipe, the prep time as working_time, the cook time as waiting_time,
\* the keywords in their order each wrapped as [name |-> keyword], every
\* ingredient as amount, unit.name, food.name and note, and no top-level
\* ingredients field.
C19_PayloadFields ==
  \A k \in DOMAIN fetches :
    LET r == fetches[k].recipe
        p == fetches[k].body
    IN /\ DOMAIN p = {"name", "description", "steps", "servings",
                       "working_time", "waiting_time", "keywords"}
       /\ p.name = r.name
       /\ p.description = r.description
       /\ p.servings = r.servings
       /\ p.working_time = r.prep_time_minutes
       /\ p.waiting_time = r.cook_time_minutes
       /\ Len(p.keywords) = Len(r.keywords)
       /\ \A j \in DOMAIN r.keywords : p.keywords[j] = [name |-> r.keywords[j]]
       /\ Len(p.steps) > 0 =>
            \A j \in DOMAIN r.ingredients :
              LET ing == p.steps[1].ingredients[j]
              IN /\ DOMAIN ing = {"amount", "unit", "food", "note"}
                 /\ ing.unit = [name |-> r.ingredients[j].unit]
                 /\ ing.food = [name |-> r.ingredients[j].name]
                 /\ ing.note = IF "note" \in DOMAIN r.ingredients[j]
                               THEN r.ingredients[j].note ELSE ""
                 /\ ing.amount.nan = FALSE

\* C19 witness: the payload of a recipe with two keywords and an ingredient
\* that carries a note is on its way.
C19_Witness ==
  \E k \in DOMAIN fetches :
    /\ fetches[k].recipe.keywords = <<"Dinner", "Quick">>
    /\ fetches[k].body.keywords = <<[name |-> "Dinner"], [name |-> "Quick"]>>
    /\ Len(fetches[k].body.steps) > 0
    /\ \E j \in DOMAIN fetches[k].body.steps[1].ingredients :
         fetches[k].body.steps[1].ingredients[j].note = "beaten"

\* the characters of an alert
Shows(msg, token) == \E i \in DOMAIN msg : msg[i] = token

\* C20 as stated: whenever the upload whose response carried a status
\* outside 200..299 ends, the alert shown includes that status.
C20_StatusInMessage ==
  [][\A k \in DOMAIN fetches :
       (BodySettleOf(k) /\ ~Ok(fetches[k].status))
         => Shows(alertMsg', ToString(fetches[k].status))]_vars

\* C20 amended: an upload whose response carried a status outside 200..299
\* ends with the failure alert, which includes that status, or, when the
\* body of the response could not be read, with the network error alert;
\* it never ends with the success alert.
C20_StatusOrNetworkError ==
  [][\A k \in DOMAIN fetches :
       (BodySettleOf(k) /\ ~Ok(fetches[k].status))
         => \/ /\ alertMsg'[1] = "Failed to upload (Status "
               /\ Shows(alertMsg', ToString(fetches[k].status))
            \/ alertMsg' = AlertNetwork]_vars

\* C20 witness: an upload answered with status 400 has just ended with the
\* failure alert.
C20_Witness ==
  /\ fetches = <<>>
  /\ tandoorKey
  /\ Shows(alertMsg, "400")
  /\ Shows(alertMsg, "Failed to upload (Status ")

C22_UploadLeavesQueue ==
  [][ExportNext => UNCHANGED <<files, activeFileId, isProcessing>>]_vars

\* C22 witness: an upload has just ended with the failure alert while a
\* batch run is waiting for the extraction of an item.
C22_Witness ==
  /\ \E r \in DOMAIN runs : runs[r].phase = "extract"
  /\ \E i \in DOMAIN files : files[i].status = PROCESSING
  /\ isProcessing
  /\ fetches = <<>>
  /\ Shows(alertMsg, "Failed to upload (Status ")

\* the position of the k-th COMPLETED item of the queue
KthCompleted(k) ==
  CHOOSE i \in DOMAIN files :
    /\ files[i].status = COMPLETED
    /\ Cardinality({j \in 1 .. i : files[j].status = COMPLETED}) = k

NumCompleted == Cardinality({i \in DOMAIN files : files[i].status = COMPLETED})

\* C23, download-all: the file offered holds, in queue order, exactly the
\* stored record of every COMPLETED item, stamp of the source file
\* included and not in the shape sent to Tandoor; with no COMPLETED item
\* nothing is offered.
C23_DownloadAll ==
  handleDownloadAll =>
    IF NumCompleted = 0 THEN download' = NoDownload
    ELSE /\ download' # NoDownload
         /\ LET batch == download'.content.json
            IN /\ Len(batch) = NumCompleted
               /\ \A k \in 1 .. NumCompleted :
                    /\ batch[k] = files[KthCompleted(k)].recipe
                    /\ "original_file_name" \in DOMAIN batch[k]
                    /\ batch[k] # Payload(batch[k])

\* C23, single download: the file offered holds the stored record of the
\* item whose button was pressed, in the same shape.
C23_DownloadOne ==
  \A i \in DOMAIN files :
    (files[i].status = COMPLETED /\ handleDownloadJson(files[i].id))
      => /\ download' # NoDownload
         /\ download'.content = Stringify(files[i].recipe)
         /\ "original_file_name" \in DOMAIN download'.content.json

\* C23: every download-all and every single download is as described
\* above.
C23_Downloads == [][C23_DownloadAll /\ C23_DownloadOne]_vars

\* C23 witness: with one item COMPLETED and another in REVIEW, the batch
\* just offered holds one record.
C23_Witness ==
  /\ \E i, j \in DOMAIN files :
       /\ files[i].status = COMPLETED
       /\ files[j].status = REVIEW
       /\ files[j].recipe # NoRecipe
  /\ download # NoDownload
  /\ download.name = <<"tandoor_import_batch", ".json">>
  /\ Len(download.content.json) = 1

\* the request of the call outstanding for the item at position p, if any
RequestOf(p) ==
  IF \E r \in DOMAIN runs :
       runs[r].phase = "extract" /\ runs[r].pending[runs[r].k].pos = p
  THEN LET r == CHOOSE q \in DOMAIN runs :
                  runs[q].phase = "extract"
                  /\ runs[q].pending[runs[q].k].pos = p
       IN runs[r].request
  ELSE NoRequest

\* C24: the request outstanding for an item is a text part of type
\* "text/plain" made by the document converter when the name ends in
\* ".docx", whatever the declared type; else a text part of type
\* "text/plain" made by the text reader when the declared type is exactly
\* "text/plain" or the name ends in ".txt"; else inline data made by the
\* base64 reader under the declared type.
C24_ContentRouting ==
  \A p \in DOMAIN files :
    RequestOf(p) # NoRequest =>
      LET file == files[p].file
          ext == file.name[Len(file.name)]
      IN IF ext = ".docx"
         THEN RequestOf(p) = [reader |-> "docx", part |-> "text",
                              mimeType |-> "text/plain"]
         ELSE IF file.type = "text/plain" \/ ext = ".txt"
              THEN RequestOf(p) = [reader |-> "text", part |-> "text",
                                   mimeType |-> "text/plain"]
              ELSE RequestOf(p) = [reader |-> "base64", part |-> "inlineData",
                                   mimeType |-> file.type]

\* C24 witness: a file named .docx and declared as "text/plain" is out
\* for extraction as converted text.
C24_Witness ==
  /\ Len(files) >= 1
  /\ files[1].file = [name |-> <<"notes", ".docx">>, type |-> "text/plain"]
  /\ RequestOf(1) # NoRequest
  /\ RequestOf(1).reader = "docx"

\* C25: an item whose extraction meets a missing credential, a response
\* without text, or a text that is not a document of the schema, is in
\* ERROR right afterwards.  Stated for queues of pairwise distinct,
\* non-empty ids, so that a violation does not rest on the ids.
C25_NonConformingFails ==
  [][\A r \in DOMAIN runs :
       /\ (PlainIds /\ runs[r].phase = "read" /\ ~apiKey /\ ReadSettle)
            => files'[CurrentPos(r)].status = ERROR
       /\ (PlainIds /\ ExtractFailOf(r))
            => files'[CurrentPos(r)].status = ERROR
       /\ \A resp \in Replies :
            (PlainIds /\ ~Conforms(resp) /\ ExtractSettleOf(r, resp))
              => files'[CurrentPos(r)].status = ERROR]_vars

StatusSteps ==
  {<<PENDING, PROCESSING>>, <<PROCESSING, REVIEW>>, <<PROCESSING, ERROR>>,
   <<REVIEW, COMPLETED>>}

\* C26: whenever the status of an item changes, it goes from PENDING to
\* PROCESSING, from PROCESSING to REVIEW or ERROR, or from REVIEW to
\* COMPLETED.
C26_StatusSteps ==
  [][\A i \in DOMAIN files :
       files'[i].status # files[i].status
         => <<files[i].status, files'[i].status>> \in StatusSteps]_vars


\* positions a step of run r writes: the item it is at and the next
\* item of its snapshot
RunPositions(r) ==
  {runs[r].pending[j].pos :
     j \in {runs[r].k, runs[r].k + 1} \cap DOMAIN runs[r].pending}

\* each update of a step taken during a run lands on its own item only
OwnItemOnly ==
  /\ (Confirm /\ ~Falsy(activeFileId)) =>
       \A i \in DOMAIN files :
         files'[i] = IF i = ActiveIndex(files, activeFileId)
                     THEN OnSave(files[i], data) ELSE files[i]
  /\ Cancel => files' = files
  /\ (ReadSettle \/ ExtractSettle) =>
       \A i \in DOMAIN files :
         files'[i] # files[i] => \E r \in DOMAIN runs : i \in RunPositions(r)

\* C27: while a batch run is in progress, a confirm changes the item under
\* review and no other, a cancel changes no item, and a step of the run
\* changes only the item the run is at and the one it takes next; so no
\* update overwrites another.
C27_UpdatesKeepApart ==
  [][runs # <<>> => OwnItemOnly]_vars


\* C28: the selection is empty, or it is the id of an item of the queue
\* that is in REVIEW or COMPLETED and holds a record.
C28_SelectionValid ==
  \/ activeFileId = NullId
  \/ \E i \in DOMAIN files :
       /\ files[i].id = activeFileId
       /\ Selectable(files[i])
       /\ files[i].recipe # NoRecipe

\* C29: an item holds a record exactly when it is in REVIEW or COMPLETED,
\* and an error message exactly when it is in ERROR.
C29_RecordAndErrorByStatus ==
  \A i \in DOMAIN files :
    /\ files[i].recipe # NoRecipe <=> files[i].status \in {REVIEW, COMPLETED}
    /\ files[i].error # NoError <=> files[i].status = ERROR

\* a value that is a list: a sequence, the empty one included
IsList(v) == DOMAIN v = 1 .. Len(v)

\* C30: every record stored on an item has ingredients and steps, both
\* lists.  Stated for queues of pairwise distinct, non-empty ids, so that
\* a violation does not rest on the ids.
C30_ListsPresent ==
  PlainIds =>
    \A i \in DOMAIN files :
      files[i].recipe # NoRecipe =>
        /\ {"ingredients", "steps"} \subseteq DOMAIN files[i].recipe
        /\ IsList(files[i].recipe.ingredients)
        /\ IsList(files[i].recipe.steps)

\* C31: an extraction call for an item is issued only by the step in which
\* the read of that item settles; and when the read or the conversion of
\* an item fails, no call is issued for it and the item is in ERROR right
\* afterwards.
C31_ReadBeforeCall ==
  [][/\ \A p \in DOMAIN files :
          calls'[p] # calls[p] =>
            \E r \in DOMAIN runs :
              /\ runs[r].phase = "read"
              /\ CurrentPos(r) = p
              /\ runs'[r].phase = "extract"
              /\ runs'[r].request.reader = ContentRoute(files[p].file).reader
     /\ \A r \in DOMAIN runs :
          runs[r].phase = "read" =>
            \A e \in ReadFailures(runs[r].pending[runs[r].k].file) :
              FailItem(r, e) =>
                /\ calls'[CurrentPos(r)] = calls[CurrentPos(r)]
                /\ files'[CurrentPos(r)].status = ERROR]_vars

\* C32 as stated: an item is in PROCESSING only while a run has an
\* extraction call outstanding for it, and no item is in PROCESSING while
\* the processing flag is clear.  Stated for queues of pairwise distinct,
\* non-empty ids, so that a violation does not rest on the ids.
C32_ProcessingOnlyDuringCall ==
  PlainIds =>
    /\ \A i \in DOMAIN files :
         files[i].status = PROCESSING =>
           \E r \in DOMAIN runs :
             runs[r].phase = "extract" /\ CurrentPos(r) = i
    /\ ~isProcessing => \A i \in DOMAIN files : files[i].status # PROCESSING

\* C32 amended: an item is in PROCESSING only while a run is at an item
\* with that id, reading its content or waiting for its extraction call;
\* no item is in PROCESSING while the processing flag is clear.
C32_ProcessingOnlyDuringItem ==
  /\ \A i \in DOMAIN files :
       files[i].status = PROCESSING =>
         \E r \in DOMAIN runs :
           /\ runs[r].phase \in {"read", "extract"}
           /\ runs[r].pending[runs[r].k].id = files[i].id
  /\ ~isProcessing => \A i \in DOMAIN files : files[i].status # PROCESSING

\* C32 witness: an item is in PROCESSING while its content is being read;
\* no extraction call has been issued for it.
C32_Witness ==
  \E r \in DOMAIN runs :
    /\ runs[r].phase = "read"
    /\ files[CurrentPos(r)].status = PROCESSING
    /\ calls[CurrentPos(r)] = 0
    /\ isProcessing

\* C33: every record stored on an item carries the name of the file of
\* that item.
C33_StampIsSourceFile ==
  \A i \in DOMAIN files :
    files[i].recipe # NoRecipe =>
      /\ "original_file_name" \in DOMAIN files[i].recipe
      /\ files[i].recipe.original_file_name = files[i].file.name

\* after is before with one entry added at the end
AppendedOne(before, after) ==
  /\ Len(after) = Len(before) + 1
  /\ \A k \in DOMAIN before : after[k] = before[k]

\* the working copy apart from one of its fields
Apart(rec, field) == [f \in DOMAIN rec \ {field} |-> rec[f]]

\* C34: in the working copy of the form, add ingredient, add step and add
\* keyword each put one entry with empty texts at the end of their list
\* and keep the entries before it, in order, and everything else; and as
\* long as the form shows the item, the working copy has at least as many
\* ingredients and steps as the record it was seeded with, so the record
\* a confirm stores has too.
C34_AppendsKeepEntries ==
  [][/\ addIngredient =>
          /\ AppendedOne(data.ingredients, data'.ingredients)
          /\ LET new == data'.ingredients[Len(data'.ingredients)]
             IN new.name = "" /\ new.amount = <<>> /\ new.unit = ""
          /\ Apart(data', "ingredients") = Apart(data, "ingredients")
     /\ addStep =>
          /\ AppendedOne(ListOrEmpty(data, "steps"), data'.steps)
          /\ data'.steps[Len(data'.steps)].instruction = ""
          /\ Apart(data', "steps") = Apart(data, "steps")
     /\ addKeyword =>
          /\ AppendedOne(ListOrEmpty(data, "keywords"), data'.keywords)
          /\ data'.keywords[Len(data'.keywords)] = ""
          /\ Apart(data', "keywords") = Apart(data, "keywords")
     /\ FormMounted(files', activeFileId') =>
          LET seed == files'[ActiveIndex(files', activeFileId')].recipe
          IN /\ Len(data'.ingredients) >= Len(seed.ingredients)
             /\ Len(data'.steps) >= Len(seed.steps)
     /\ (Confirm /\ ~Falsy(activeFileId)) =>
          LET a == ActiveIndex(files, activeFileId)
          IN /\ Len(files'[a].recipe.ingredients)
                  >= Len(files[a].recipe.ingredients)
             /\ Len(files'[a].recipe.steps) >= Len(files[a].recipe.steps)]_vars

\* C34 witness: the working copy has one ingredient more than the record
\* it was seeded with, an empty one after the seeded one, and no keyword
\* left of the one it was seeded with.
C34_Witness ==
  /\ FormMounted(files, activeFileId)
  /\ LET seed == files[ActiveIndex(files, activeFileId)].recipe
     IN /\ Len(seed.ingredients) = 1
        /\ Len(data.ingredients) = 2
        /\ data.ingredients[1] = seed.ingredients[1]
        /\ data.ingredients[2] = EmptyIngredient
        /\ "keywords" \in DOMAIN seed
        /\ Len(seed.keywords) = 1
        /\ data.keywords = <<>>

\* C35: the items of the queue have pairwise distinct ids.
C35_DistinctIds ==
  \A i, j \in DOMAIN files : i # j => files[i].id # files[j].id

====
